---------------------------- MODULE Spec2Model ----------------------------
(***************************************************************************)
(* The two Aadhaar enrolment dashboards (streamlit_app_demo/app2.py and    *)
(* streamlit_app_demo/app_enrolment.py) as a state machine.  One rerun of  *)
(* the script (one user interaction) is one action: it loads the dataset   *)
(* through the st.cache_data memo, reads the sidebar widgets, filters the  *)
(* frame to the selected region and computes the views top to bottom.      *)
(*                                                                         *)
(* A DataFrame is a sequence of rows; every row carries its index label    *)
(* (field idx), as a pandas frame does.  A missing cell is NaN.  A float   *)
(* is a fixed-point number with Precision units per 1.                     *)
(***************************************************************************)
EXTENDS Integers, Sequences, FiniteSets, TLC

(***************************************************************************)
(* Bounds of the model.                                                    *)
(***************************************************************************)
MaxRows == 2          \* rows of one CSV file in the pipeline specification
MaxNum == 1200        \* format_indian is applied to every number up to here
Precision == 1000000  \* fixed-point units per 1 of a modelled float

(***************************************************************************)
(* Text: a Python str is a sequence of one-character strings.              *)
(***************************************************************************)
DigitChars == <<"0", "1", "2", "3", "4", "5", "6", "7", "8", "9">>

Digit(d) == DigitChars[d + 1]

DigitValue(c) == CHOOSE d \in 0..9 : DigitChars[d + 1] = c

\* str(n) of a non-negative int
RECURSIVE Str(_)
Str(n) == IF n < 10 THEN <<Digit(n)>> ELSE Str(n \div 10) \o <<Digit(n % 10)>>

\* int(s) of a string of decimal digits
RECURSIVE ParseInt(_)
ParseInt(s) ==
    IF Len(s) = 0 THEN 0
    ELSE 10 * ParseInt(SubSeq(s, 1, Len(s) - 1)) + DigitValue(s[Len(s)])

\* s.zfill(width)
RECURSIVE ZFill(_, _)
ZFill(s, width) == IF Len(s) >= width THEN s ELSE ZFill(<<"0">> \o s, width)

\* s.lstrip(c)
RECURSIVE LStrip(_, _)
LStrip(s, c) ==
    IF Len(s) > 0 /\ s[1] = c THEN LStrip(Tail(s), c) ELSE s

\* s[-k:]
LastChars(s, k) == IF Len(s) <= k THEN s ELSE SubSeq(s, Len(s) - k + 1, Len(s))

\* s[:-k]
DropLast(s, k) == IF Len(s) <= k THEN <<>> ELSE SubSeq(s, 1, Len(s) - k)

\* the while loop of format_indian: two digits and a comma in front, per pass
RECURSIVE IndianLoop(_, _)
IndianLoop(num, result) ==
    IF num > 0
    THEN IndianLoop(num \div 100, ZFill(Str(num % 100), 2) \o <<",">> \o result)
    ELSE result

\* a faulty loop that groups by thousands, as the Western system does
RECURSIVE WesternLoop(_, _)
WesternLoop(num, result) ==
    IF num > 0
    THEN WesternLoop(num \div 1000, ZFill(Str(num % 1000), 3) \o <<",">> \o result)
    ELSE result

format_indian_western(num) ==
    IF num < 1000 THEN Str(num)
    ELSE LET s == Str(num)
         IN  LStrip(LStrip(WesternLoop(ParseInt(DropLast(s, 3)), LastChars(s, 3)),
                           "0"), ",")

format_indian(num) ==
    IF num < 1000 THEN Str(num)
    ELSE LET s == Str(num)
         IN  LStrip(LStrip(IndianLoop(ParseInt(DropLast(s, 3)), LastChars(s, 3)),
                           "0"), ",")


(***************************************************************************)
(* The data model.  Names (state, district) and pincodes are numbered in   *)
(* their sort order; a date is the number yyyymmdd, so that the order of   *)
(* the numbers is the order of the dates.                                  *)
(***************************************************************************)
NaN == -1             \* a missing cell (pandas NaN), also a float NaN

None == -2            \* Python None: a selectbox over no options returns it

NoColumn == -3        \* the cell of a column that the CSV file does not have

States == {1, 2}          \* state names A, B, in their sort order

Districts == {1, 2}       \* district names X, Y, in their sort order

Dates == {20250101, 20250102, 20250201}

\* the age buckets of a row: nobody, one child under five, or one minor
\* and one adult
AgeVectors == {<<0, 0, 0>>, <<1, 0, 0>>, <<0, 1, 1>>}

\* the geography of a row: districts X and Y of state A, rows of state A
\* with no district, a district X of state B, rows with no state
Places ==
    { [state |-> 1, district |-> 1, pincode |-> 11],
      [state |-> 1, district |-> 2, pincode |-> 12],
      [state |-> 1, district |-> NaN, pincode |-> 13],
      [state |-> 2, district |-> 1, pincode |-> 21],
      [state |-> NaN, district |-> 2, pincode |-> NaN] }

AgeCols == <<"age_0_5", "age_5_17", "age_18_greater">>

\* the rows a CSV file can hold, over given dates, places and age buckets
RowsOver(dates, places, ages) ==
    { [date |-> d, state |-> p.state, district |-> p.district,
       pincode |-> p.pincode, age_0_5 |-> a[1], age_5_17 |-> a[2],
       age_18_greater |-> a[3]] :
      d \in dates, p \in places, a \in ages }

\* the CSV files of up to MaxRows rows
FramesOver(rows) == UNION { [1..n -> rows] : n \in 0..MaxRows }

\* rows of one day that differ in place and age buckets
RegionRows == RowsOver({20250101}, Places, AgeVectors)

\* rows of a district of state A and one of state B that differ in date and
\* age buckets
SeriesRows ==
    RowsOver(Dates, {p \in Places : p.district = 1}, AgeVectors)

\* rows of one day in districts X and Y of state A and X of state B, read
\* from a file that has a pincode column or from one that has none
ViewPlaces == {p \in Places : p.state # NaN /\ p.district # NaN}

ViewRowsWithPincode == RowsOver({20250101}, ViewPlaces, AgeVectors)

ViewRowsWithoutPincode ==
    RowsOver({20250101},
             {[state |-> p.state, district |-> p.district,
               pincode |-> NoColumn] : p \in ViewPlaces},
             AgeVectors)

\* whether the frame has the column: df[name] and df.groupby(name) raise
\* KeyError when it has not
HasColumn(frame, name) == \A i \in DOMAIN frame : frame[i][name] # NoColumn

\* df["date"].dt.to_period("M").astype(str): the year-month of a date
PeriodM(date) == date \div 100

(***************************************************************************)
(* Sums and orders.                                                        *)
(***************************************************************************)
RECURSIVE SumSeq(_)
SumSeq(s) == IF Len(s) = 0 THEN 0 ELSE s[1] + SumSeq(Tail(s))

Min(S) == CHOOSE x \in S : \A y \in S : x <= y

\* the elements of a set of numbers in ascending order
RECURSIVE Ascending(_)
Ascending(S) ==
    IF S = {} THEN <<>> ELSE <<Min(S)>> \o Ascending(S \ {Min(S)})

\* Series == value, element by element: NaN equals nothing, None equals nothing
Eq(cell, value) == cell # NaN /\ value # None /\ value # NaN /\ cell = value

\* sorted(df[col].dropna().unique())
UniqueSorted(frame, col) ==
    Ascending({frame[i][col] : i \in DOMAIN frame} \ {NaN})

\* st.selectbox(label, options): the options the user can pick; None when
\* there are none
SelectboxChoices(options) ==
    IF Len(options) = 0 THEN {None} ELSE {options[i] : i \in DOMAIN options}

(***************************************************************************)
(* DataFrame operations.                                                   *)
(***************************************************************************)
\* frame[mask]: the rows that satisfy Test, index labels kept
Mask(frame, Test(_)) == SelectSeq(frame, Test)

\* the sum of column c over the rows with frame[col] = key
RECURSIVE ColSum(_, _, _, _)
ColSum(frame, col, key, c) ==
    IF Len(frame) = 0 THEN 0
    ELSE (IF frame[1][col] = key THEN frame[1][c] ELSE 0)
         + ColSum(Tail(frame), col, key, c)

\* frame.groupby(col)[["age_0_5", "age_5_17", "age_18_greater"]].sum():
\* one row per distinct key, keys ascending, rows with a missing key dropped
GroupBySum(frame, col) ==
    LET keys == UniqueSorted(frame, col)
    IN  [k \in DOMAIN keys |->
            [key |-> keys[k],
             age_0_5 |-> ColSum(frame, col, keys[k], "age_0_5"),
             age_5_17 |-> ColSum(frame, col, keys[k], "age_5_17"),
             age_18_greater |-> ColSum(frame, col, keys[k], "age_18_greater")]]

\* a row total that leaves out the last age bucket
RowTotalTwoBuckets(g) == g.age_0_5 + g.age_5_17

\* .sum(axis=1) of one grouped row
RowTotal(g) == g.age_0_5 + g.age_5_17 + g.age_18_greater

\* .sum(axis=1).reset_index(name=...): one (key, value) row per group
TotalsFrame(grouped) ==
    [k \in DOMAIN grouped |->
        [key |-> grouped[k].key, value |-> RowTotal(grouped[k])]]

\* .reset_index().melt(id_vars=col, var_name="age_group", value_name=...):
\* the grouped rows once per age column, column after column
Melt(grouped) ==
    [k \in 1..(Len(AgeCols) * Len(grouped)) |->
        LET c == AgeCols[((k - 1) \div Len(grouped)) + 1]
            g == grouped[((k - 1) % Len(grouped)) + 1]
        IN  [key |-> g.key, age_group |-> c, value |-> g[c]]]

\* place one row in a frame sorted by value, descending, after its equals
RECURSIVE InsertDescending(_, _)
InsertDescending(sorted, row) ==
    IF Len(sorted) = 0 THEN <<row>>
    ELSE IF sorted[1].value >= row.value
         THEN <<sorted[1]>> \o InsertDescending(Tail(sorted), row)
         ELSE <<row>> \o sorted

\* .sort_values(name, ascending=False)
RECURSIVE SortValuesDescending(_)
SortValuesDescending(frame) ==
    IF Len(frame) = 0 THEN <<>>
    ELSE InsertDescending(SortValuesDescending(SubSeq(frame, 1, Len(frame) - 1)),
                          frame[Len(frame)])

\* .cumsum() left out: every date keeps its own total
NoCumSum(frame) == frame

\* .cumsum() over the value column
CumSum(frame) ==
    [k \in DOMAIN frame |->
        [frame[k] EXCEPT !.value =
            SumSeq([j \in 1..k |-> frame[j].value])]]

\* a division guarded to give 0 where the total is 0
QuotientZeroGuard(x, total) ==
    IF total = 0 THEN 0
    ELSE (2 * x * Precision + total) \div (2 * total)

\* x / total of two integers as a float: 0 / 0 is NaN, no exception
Quotient(x, total) ==
    IF total = 0 THEN NaN
    ELSE (2 * x * Precision + total) \div (2 * total)

\* float * 100
Times100(q) == IF q = NaN THEN NaN ELSE 100 * q

\* a share that leaves out the "* 100"
ShareAsFraction(x, total) == Quotient(x, total)

\* one cell of monthly_pct.div(monthly_pct.sum(axis=1), axis=0) * 100
Share(x, total) == Times100(Quotient(x, total))

\* .div(monthly_pct.sum(axis=1), axis=0) * 100 over the grouped rows
PercentFrame(grouped) ==
    [k \in DOMAIN grouped |->
        LET g == grouped[k]
        IN  [key |-> g.key,
             age_0_5 |-> Share(g.age_0_5, RowTotal(g)),
             age_5_17 |-> Share(g.age_5_17, RowTotal(g)),
             age_18_greater |-> Share(g.age_18_greater, RowTotal(g))]]

\* format_age_group(col_name): the label of an age column, the name itself
\* when the table does not hold it
format_age_group(col_name) ==
    CASE col_name = "age_0_5" -> "Age 0-5"
      [] col_name = "age_5_17" -> "Age 5-17"
      [] col_name = "age_18_greater" -> "Age 18+"
      [] col_name = "bio_age_5_17" -> "Age 5-17"
      [] col_name = "bio_age_17_" -> "Age 17+"
      [] col_name = "demo_age_5_17" -> "Age 5-17"
      [] col_name = "demo_age_17_" -> "Age 17+"
      [] OTHER -> col_name

\* frame["age_group"] = frame["age_group"].apply(format_age_group)
ApplyLabels(frame) ==
    [k \in DOMAIN frame |->
        [frame[k] EXCEPT !.age_group = format_age_group(frame[k].age_group)]]

(***************************************************************************)
(* The six views, each a function of the filtered frame.                   *)
(***************************************************************************)
\* monthly_total
MonthlyTotal(frame) == TotalsFrame(GroupBySum(frame, "month"))

\* monthly_age; app_enrolment.py relabels the age groups, app2.py does not
MonthlyAge(frame, dashboard) ==
    LET melted == Melt(GroupBySum(frame, "month"))
    IN  IF dashboard = "app_enrolment" THEN ApplyLabels(melted) ELSE melted

\* sub_col = "state" if level == "National" else "district"
SubCol(lv) == IF lv = "National" THEN "state" ELSE "district"

\* sub_total
SubTotal(frame, lv) ==
    SortValuesDescending(TotalsFrame(GroupBySum(frame, SubCol(lv))))

\* sub_age
SubAge(frame, lv, dashboard) ==
    LET melted == Melt(GroupBySum(frame, SubCol(lv)))
    IN  IF dashboard = "app_enrolment" THEN ApplyLabels(melted) ELSE melted

\* pincode_table
PincodeTable(frame) ==
    SortValuesDescending(TotalsFrame(GroupBySum(frame, "pincode")))

\* daily_total
DailyTotal(frame) == CumSum(TotalsFrame(GroupBySum(frame, "date")))

\* monthly_pct
MonthlyPct(frame, dashboard) ==
    LET melted == Melt(PercentFrame(GroupBySum(frame, "month")))
    IN  IF dashboard = "app_enrolment" THEN ApplyLabels(melted) ELSE melted

\* df_region[["age_0_5", "age_5_17", "age_18_greater"]].sum().sum()
RECURSIVE FrameTotal(_)
FrameTotal(frame) ==
    IF Len(frame) = 0 THEN 0
    ELSE frame[1].age_0_5 + frame[1].age_5_17 + frame[1].age_18_greater
         + FrameTotal(Tail(frame))

\* total_enrol_sum = int(... / 2)
TotalEnrolSum(frame) == FrameTotal(frame) \div 2

(***************************************************************************)
(* The region filter.                                                      *)
(***************************************************************************)
Levels == {"National", "State", "District"}

\* a District filter that forgets the state
RegionFilterDistrictOnly(frame, lv, st, di) ==
    IF lv = "State"
    THEN LET InState(r) == Eq(r.state, st) IN Mask(frame, InState)
    ELSE IF lv = "District"
    THEN LET InDistrict(r) == Eq(r.district, di) IN Mask(frame, InDistrict)
    ELSE frame

\* df_region: df.copy(), narrowed to the state, or to the state and district
RegionFilter(frame, lv, st, di) ==
    IF lv = "State"
    THEN LET InState(r) == Eq(r.state, st) IN Mask(frame, InState)
    ELSE IF lv = "District"
    THEN LET InDistrict(r) == Eq(r.state, st) /\ Eq(r.district, di)
         IN  Mask(frame, InDistrict)
    ELSE frame

\* the options of the "Select State" box, None when the level is National
StateChoices(frame, lv) ==
    IF lv \in {"State", "District"}
    THEN SelectboxChoices(UniqueSorted(frame, "state"))
    ELSE {None}

\* the options of the "Select District" box: the districts of the rows of
\* the chosen state; None when the level is not District
DistrictChoices(frame, lv, st) ==
    IF lv = "District"
    THEN LET InState(r) == Eq(r.state, st)
         IN  SelectboxChoices(UniqueSorted(Mask(frame, InState), "district"))
    ELSE {None}

(***************************************************************************)
(* The loader.                                                             *)
(***************************************************************************)
Dashboards == {"app_enrolment", "app2"}

\* the files a glob of Datasets/DF_ENROLMENT_*.csv can match
GlobFiles == {"DF_ENROLMENT_CLEANED.csv", "DF_ENROLMENT_2026.csv"}

\* csv_files of app2.py: the dataset names of the selectbox and their files
csv_files ==
    [n \in {"Aadhaar Enrolment Data", "Demographic Data", "Biometric Data"} |->
        CASE n = "Aadhaar Enrolment Data" -> "DF_ENROLMENT_CLEANED.csv"
          [] n = "Demographic Data" -> "DF_DEMOGRAPHIC_CLEANED.csv"
          [] n = "Biometric Data" -> "DF_BIOMETRIC_CLEANED.csv"]

FilesOf(dashboard) ==
    IF dashboard = "app_enrolment" THEN GlobFiles
    ELSE {csv_files[n] : n \in DOMAIN csv_files}

\* the orders in which glob.glob may list a set of files
Orders(files) ==
    { o \in [1..Cardinality(files) -> files] :
        \A i, j \in DOMAIN o : i # j => o[i] # o[j] }

\* pd.concat([pd.read_csv(f) for f in files]): the rows file after file
RECURSIVE Concat(_, _)
Concat(contents, order) ==
    IF Len(order) = 0 THEN <<>>
    ELSE contents[order[1]] \o Concat(contents, Tail(order))

\* the frame of raw rows with a fresh index (ignore_index=True, or the
\* index read_csv gives), the date parsed and the month derived
LoadFrame(raw) ==
    [i \in DOMAIN raw |->
        [idx |-> i - 1,
         date |-> raw[i].date,
         month |-> PeriodM(raw[i].date),
         state |-> raw[i].state,
         district |-> raw[i].district,
         pincode |-> raw[i].pincode,
         age_0_5 |-> raw[i].age_0_5,
         age_5_17 |-> raw[i].age_5_17,
         age_18_greater |-> raw[i].age_18_greater]]

VARIABLES
    app,                \* which dashboard this process runs
    disk,               \* the CSV files present, each with its rows
    cache,              \* st.cache_data of load_data: key -> frame
    readLog,            \* the file sets read from disk so far, in order
    firstServed,        \* file set -> the frame its first load returned
    served,             \* the last load: its file set, and the file set
                        \* its frame was built from
    selected_file_name, \* app2.py: the dataset chosen
    df,                 \* the loaded frame
    level, state, district, \* the sidebar selection
    plot_button,        \* app2.py: "Generate Plots" was clicked; TRUE in
                        \* app_enrolment.py, which has no button
    df_region,          \* the filtered frame
    outcome,            \* how the last rerun ended
    warning,            \* st.warning("No data available ...") was shown
    computed,           \* the views computed in the last rerun
    rendered,           \* the views drawn in the last rerun, in order
    headline,           \* format_indian(total_enrol_sum) of app_enrolment.py
    monthly_total, monthly_age, sub_total, sub_age, pincode_table,
    daily_total, monthly_pct,
    fmt_num, fmt_out    \* an argument of format_indian and its result

loaderVars == <<app, disk, cache, readLog, firstServed, served,
                selected_file_name, df>>

requestVars == <<level, state, district, plot_button, df_region, outcome,
                 warning, computed, rendered, headline>>

viewVars == <<monthly_total, monthly_age, sub_total, sub_age, pincode_table,
              daily_total, monthly_pct>>

fmtVars == <<fmt_num, fmt_out>>

vars == <<loaderVars, requestVars, viewVars, fmtVars>>

\* the reads a process may make before the model stops following it
MaxReads == 4

\* the key of a call under st.cache_data: the arguments of load_data, which
\* are none in app_enrolment.py and file_path in app2.py
CacheKey(dashboard, name) ==
    IF dashboard = "app_enrolment" THEN "load_data()" ELSE csv_files[name]

\* the source file set of a load: what the glob matches now, or the path
Resolved(dashboard, name, contents) ==
    IF dashboard = "app_enrolment" THEN DOMAIN contents \cap GlobFiles
    ELSE {csv_files[name]}

\* a loader that is not memoized
NeverCached(memo, key) == FALSE

\* st.cache_data holds a result for this key
CacheHit(memo, key) == key \in DOMAIN memo

\* the files load_data reads on a miss are there to be read: the glob
\* matched something (pd.concat of no frames raises), the path exists
Readable(dashboard, name, contents) ==
    /\ Resolved(dashboard, name, contents) # {}
    /\ Resolved(dashboard, name, contents) \subseteq DOMAIN contents

WithEntry(f, k, v) == [x \in DOMAIN f \cup {k} |-> IF x = k THEN v ELSE f[x]]

(***************************************************************************)
(* One rerun of the script.                                                *)
(***************************************************************************)
NoViews ==
    /\ monthly_total' = <<>>
    /\ monthly_age' = <<>>
    /\ sub_total' = <<>>
    /\ sub_age' = <<>>
    /\ pincode_table' = <<>>
    /\ daily_total' = <<>>
    /\ monthly_pct' = <<>>
    /\ headline' = <<>>
    /\ computed' = {}
    /\ rendered' = <<>>

\* load_data raises (no file matched, or the file is missing): the script
\* ends there, with nothing cached and nothing drawn
LoadFails ==
    /\ df' = <<>>
    /\ UNCHANGED <<cache, readLog, firstServed, served>>
    /\ level' = "National"
    /\ state' = None
    /\ district' = None
    /\ plot_button' = FALSE
    /\ df_region' = <<>>
    /\ outcome' = "load_error"
    /\ warning' = FALSE
    /\ NoViews

\* df = load_data(...): from the memo on a hit; read, built and memoized on a
\* miss
Loaded(key, files, data, src, hit) ==
    /\ df' = data
    /\ cache' = IF hit THEN cache
                ELSE WithEntry(cache, key, [data |-> data, src |-> src])
    /\ readLog' = IF hit THEN readLog ELSE Append(readLog, files)
    /\ firstServed' = IF files \in DOMAIN firstServed THEN firstServed
                      ELSE WithEntry(firstServed, files, data)
    /\ served' = [loaded |-> TRUE, files |-> files, src |-> src]

\* app2.py without a click on "Generate Plots": nothing below the filter runs
Idle ==
    /\ outcome' = "idle"
    /\ warning' = FALSE
    /\ NoViews

\* a stop on an empty frame that shows no warning
NoDataSilent ==
    /\ outcome' = "no_data"
    /\ warning' = FALSE
    /\ NoViews

\* if df_region.empty: st.warning(...); st.stop()
NoData ==
    /\ outcome' = "no_data"
    /\ warning' = TRUE
    /\ NoViews

\* the views of a level, in the order the script computes and draws them
ViewSequence(lv) ==
    IF lv = "District"
    THEN <<"monthly_total", "monthly_age", "pincode_table",
           "daily_total", "monthly_pct">>
    ELSE <<"monthly_total", "monthly_age", "sub_total",
           "sub_age", "daily_total", "monthly_pct">>

\* the views, top to bottom.  No statement of the sequence is inside a
\* try block, so an exception in a view ends the script there.  The third
\* view raises (drawn = FALSE) in two cases: at District level
\* groupby("pincode") raises KeyError over a frame without that column,
\* before pincode_table is assigned; at the other levels, when the
\* sub-territory frame has no row, sns.barplot may draw no bar container,
\* and ax3.containers[0] then raises IndexError after sub_total is assigned.
Views(region, lv, drawn) ==
    /\ warning' = FALSE
    /\ headline' = IF app = "app_enrolment"
                   THEN format_indian(TotalEnrolSum(region)) ELSE <<>>
    /\ monthly_total' = MonthlyTotal(region)
    /\ monthly_age' = MonthlyAge(region, app)
    /\ pincode_table' = IF lv = "District" /\ drawn
                        THEN PincodeTable(region) ELSE <<>>
    /\ sub_total' = IF lv = "District" THEN <<>> ELSE SubTotal(region, lv)
    /\ IF drawn
       THEN /\ outcome' = "rendered"
            /\ sub_age' = IF lv = "District" THEN <<>>
                          ELSE SubAge(region, lv, app)
            /\ daily_total' = DailyTotal(region)
            /\ monthly_pct' = MonthlyPct(region, app)
            /\ computed' = {ViewSequence(lv)[k] : k \in DOMAIN ViewSequence(lv)}
            /\ rendered' = ViewSequence(lv)
       ELSE /\ outcome' = "error"
            /\ sub_age' = <<>>
            /\ daily_total' = <<>>
            /\ monthly_pct' = <<>>
            /\ computed' = IF lv = "District"
                           THEN {"monthly_total", "monthly_age"}
                           ELSE {"monthly_total", "monthly_age", "sub_total"}
            /\ rendered' = SubSeq(ViewSequence(lv), 1, 2)

\* the sidebar, the filter and what follows it
Request(data, lv, st, di, btn, drawn) ==
    LET region == RegionFilter(data, lv, st, di)
    IN  /\ level' = lv
        /\ state' = st
        /\ district' = di
        /\ plot_button' = btn
        /\ df_region' = region
        /\ IF app = "app2" /\ ~btn THEN Idle
           ELSE IF Len(region) = 0 THEN NoData
           ELSE Views(region, lv, drawn)

\* whether the third view comes out: never at District level over a frame
\* without a pincode column, either way when the bar chart of the other
\* levels has no bar to draw, always otherwise
DrawnChoices(data, lv, st, di) ==
    IF lv = "District"
    THEN {HasColumn(RegionFilter(data, lv, st, di), "pincode")}
    ELSE IF Len(SubTotal(RegionFilter(data, lv, st, di), lv)) = 0
         THEN BOOLEAN ELSE {TRUE}

\* one run of the script, from the dataset selectbox to the last chart
Rerun ==
    \E name \in (IF app = "app2" THEN DOMAIN csv_files ELSE {selected_file_name}) :
        LET key == CacheKey(app, name)
            files == Resolved(app, name, disk)
            hit == CacheHit(cache, key)
        IN  /\ Len(readLog) < MaxReads
            /\ selected_file_name' = name
            /\ UNCHANGED <<app, disk, fmtVars>>
            /\ IF ~hit /\ ~Readable(app, name, disk)
               THEN LoadFails
               ELSE \E order \in (IF hit THEN {<<>>} ELSE Orders(files)) :
                    LET data == IF hit THEN cache[key].data
                                ELSE LoadFrame(Concat(disk, order))
                        src == IF hit THEN cache[key].src ELSE files
                    IN  /\ Loaded(key, files, data, src, hit)
                        /\ \E lv \in Levels :
                           \E st \in StateChoices(data, lv) :
                           \E di \in DistrictChoices(data, lv, st) :
                           \E btn \in (IF app = "app2" THEN BOOLEAN ELSE {TRUE}) :
                           \E drawn \in DrawnChoices(data, lv, st, di) :
                               Request(data, lv, st, di, btn, drawn)

(***************************************************************************)
(* The world outside the process: files are written and removed.           *)
(***************************************************************************)
FileContents ==
    { <<[date |-> 20250101, state |-> 1, district |-> 1, pincode |-> 11,
         age_0_5 |-> 1, age_5_17 |-> 0, age_18_greater |-> 0]>>,
      <<[date |-> 20250201, state |-> 2, district |-> 1, pincode |-> 21,
         age_0_5 |-> 0, age_5_17 |-> 1, age_18_greater |-> 1]>> }

WriteFile ==
    \E f \in FilesOf(app), c \in FileContents :
        /\ ~(f \in DOMAIN disk /\ disk[f] = c)
        /\ disk' = WithEntry(disk, f, c)
        /\ UNCHANGED <<app, cache, readLog, firstServed, served,
                       selected_file_name, df, requestVars, viewVars, fmtVars>>

RemoveFile ==
    \E f \in DOMAIN disk :
        /\ disk' = [x \in DOMAIN disk \ {f} |-> disk[x]]
        /\ UNCHANGED <<app, cache, readLog, firstServed, served,
                       selected_file_name, df, requestVars, viewVars, fmtVars>>

(***************************************************************************)
(* format_indian on its own.                                               *)
(***************************************************************************)
FormatInputs ==
    0..MaxNum \cup {9999, 10000, 99999, 100000, 100100, 999999, 1000000,
                    1203045, 9999999, 10000000, 12345678, 100000000}

\* the call format_indian(fmt_num)
FormatCall ==
    /\ fmt_out = <<>>
    /\ fmt_out' = format_indian(fmt_num)
    /\ UNCHANGED <<fmt_num, loaderVars, requestVars, viewVars>>

(***************************************************************************)
(* Specifications.                                                         *)
(***************************************************************************)
\* a process that has not run the script yet
Fresh ==
    /\ app \in Dashboards
    /\ cache = <<>>
    /\ readLog = <<>>
    /\ firstServed = <<>>
    /\ served = [loaded |-> FALSE, files |-> {}, src |-> {}]
    /\ selected_file_name = "Aadhaar Enrolment Data"
    /\ df = <<>>
    /\ level = "National"
    /\ state = None
    /\ district = None
    /\ plot_button = FALSE
    /\ df_region = <<>>
    /\ outcome = "fresh"
    /\ warning = FALSE
    /\ computed = {}
    /\ rendered = <<>>
    /\ headline = <<>>
    /\ monthly_total = <<>>
    /\ monthly_age = <<>>
    /\ sub_total = <<>>
    /\ sub_age = <<>>
    /\ pincode_table = <<>>
    /\ daily_total = <<>>
    /\ monthly_pct = <<>>
    /\ fmt_out = <<>>

\* the pipeline over regions: one CSV file of up to MaxRows rows that differ
\* in state, district and age buckets, and reruns over it
Init ==
    /\ Fresh
    /\ fmt_num = 0
    /\ \E raw \in FramesOver(RegionRows) :
           disk = [f \in {"DF_ENROLMENT_CLEANED.csv"} |-> raw]

Next == Rerun

Spec == Init /\ [][Next]_vars

\* the pipeline over time: one CSV file of up to MaxRows rows that differ in
\* date, month and age buckets, and reruns over it
InitSeries ==
    /\ Fresh
    /\ fmt_num = 0
    /\ \E raw \in FramesOver(SeriesRows) :
           disk = [f \in {"DF_ENROLMENT_CLEANED.csv"} |-> raw]

NextSeries == Rerun

SpecSeries == InitSeries /\ [][NextSeries]_vars

\* the view sequence: one CSV file of up to MaxRows rows with full geography,
\* with or without a pincode column, and reruns over it
InitViews ==
    /\ Fresh
    /\ fmt_num = 0
    /\ \E raw \in FramesOver(ViewRowsWithPincode)
                   \cup FramesOver(ViewRowsWithoutPincode) :
           disk = [f \in {"DF_ENROLMENT_CLEANED.csv"} |-> raw]

NextViews == Rerun

SpecViews == InitViews /\ [][NextViews]_vars

\* the loader: files come, change and go between reruns
InitLoader ==
    /\ Fresh
    /\ fmt_num = 0
    /\ \E present \in SUBSET FilesOf(app) : disk \in [present -> FileContents]

NextLoader == Rerun \/ WriteFile \/ RemoveFile

SpecLoader == InitLoader /\ [][NextLoader]_vars

\* format_indian over FormatInputs
InitFormat ==
    /\ Fresh
    /\ app = "app_enrolment"
    /\ disk = <<>>
    /\ fmt_num \in FormatInputs

NextFormat == FormatCall

SpecFormat == InitFormat /\ [][NextFormat]_vars

(***************************************************************************)
(* Properties.                                                             *)
(***************************************************************************)
Rows(frame) == {frame[i] : i \in DOMAIN frame}

\* the last rerun got a frame from load_data and read the sidebar
Requested == outcome \in {"idle", "no_data", "rendered", "error"}

\* the rows of frame in the order of frame
IsSubframe(part, frame) ==
    part = SelectSeq(frame, LAMBDA r : r \in Rows(part))

ViewValues(frame) == [k \in DOMAIN frame |-> frame[k].value]

\* C1: the region filter.  National is the loaded frame itself; the rows at
\* State level are exactly the rows of that state; the rows at District level
\* are exactly the rows of that state and district, hence among the rows of
\* the state; and the frame the rerun filtered is the one of its selection.
C1_RegionFilterNested ==
    Requested =>
        /\ RegionFilter(df, "National", None, None) = df
        /\ \A s \in States \cup {None} :
            /\ Rows(RegionFilter(df, "State", s, None))
                   = {r \in Rows(df) : r.state = s}
            /\ IsSubframe(RegionFilter(df, "State", s, None), df)
            /\ \A d \in Districts \cup {None} :
                /\ Rows(RegionFilter(df, "District", s, d))
                       = {r \in Rows(df) : r.state = s /\ r.district = d}
                /\ Rows(RegionFilter(df, "District", s, d))
                       \subseteq Rows(RegionFilter(df, "State", s, None))
                /\ IsSubframe(RegionFilter(df, "District", s, d), df)
        /\ level = "National" => df_region = df
        /\ level = "State" =>
               Rows(df_region) = {r \in Rows(df) : r.state = state}
        /\ level = "District" =>
               Rows(df_region) =
                   {r \in Rows(df) : r.state = state /\ r.district = district}

\* a District request that keeps one of two rows of the same district name
\* in different states
C1_Witness ==
    /\ outcome = "rendered"
    /\ level = "District"
    /\ Len(df) = 2
    /\ Len(df_region) = 1
    /\ df[1].district = df[2].district
    /\ df[1].state # df[2].state
    /\ df[2].state # NaN

\* the months with at least one row in the filtered frame
MonthsOf(frame) == {frame[i].month : i \in DOMAIN frame}

\* the values of a melted view for one key, age group after age group
ValuesFor(view, key) ==
    LET picked == SelectSeq(view, LAMBDA t : t.key = key)
    IN  [k \in DOMAIN picked |-> picked[k].value]

\* C2: for every month of the filtered frame the three age-group values of
\* monthly_age add up to the value of monthly_total, and both views hold
\* exactly the months that have a row (once, and once per age group).
C2_MonthlyViewsAgree ==
    outcome \in {"rendered", "error"} =>
        /\ {monthly_total[k].key : k \in DOMAIN monthly_total} = MonthsOf(df_region)
        /\ Len(monthly_total) = Cardinality(MonthsOf(df_region))
        /\ {monthly_age[k].key : k \in DOMAIN monthly_age} = MonthsOf(df_region)
        /\ Len(monthly_age) = Len(AgeCols) * Cardinality(MonthsOf(df_region))
        /\ \A k \in DOMAIN monthly_total :
            /\ Len(ValuesFor(monthly_age, monthly_total[k].key)) = Len(AgeCols)
            /\ SumSeq(ValuesFor(monthly_age, monthly_total[k].key))
                   = monthly_total[k].value

\* two rows of one month that together have people in all three age groups
C2_Witness ==
    /\ outcome = "rendered"
    /\ Len(df_region) = 2
    /\ Len(monthly_total) = 1
    /\ monthly_total[1].value = 3
    /\ \A k \in DOMAIN monthly_age : monthly_age[k].value > 0

IsDescending(view) ==
    \A i, j \in DOMAIN view : i < j => view[i].value >= view[j].value

\* C3: at State level the district ranking (sub_total) is sorted by
\* registrations, descending, and its registrations add up to the sum of the
\* monthly totals of the state, also when rows have no district.  (Stated
\* for the rankings that have a row, which are drawn whatever the charting
\* library does with an empty one.)
C3_DistrictRankingTotal ==
    (outcome = "rendered" /\ level = "State" /\ Len(sub_total) > 0) =>
        /\ IsDescending(sub_total)
        /\ SumSeq(ViewValues(sub_total)) = SumSeq(ViewValues(monthly_total))

\* the share of one age column in one month, read off monthly_pct
ShareOf(month, col) ==
    LET picked ==
            SelectSeq(monthly_pct,
                      LAMBDA t : t.key = month /\
                                 t.age_group \in {col, format_age_group(col)})
    IN  picked[1].value

SharesOf(month) == [c \in DOMAIN AgeCols |-> ShareOf(month, AgeCols[c])]

\* the sum of an age column over the rows of one month
MonthSum(frame, month, col) == ColSum(frame, "month", month, col)

MonthTotal(frame, month) ==
    MonthSum(frame, month, "age_0_5") + MonthSum(frame, month, "age_5_17")
        + MonthSum(frame, month, "age_18_greater")

Abs(x) == IF x < 0 THEN -x ELSE x

\* 0.01, in the units of a modelled float
Tolerance == Precision \div 100

\* C4: in every month with a non-zero total, monthly_pct holds one share
\* per age group; each share is 100 * (bucket's monthly sum) / (month's
\* total) within the tolerance and lies between 0 and 100, and the three
\* shares add up to 100 within the tolerance of 0.01.
C4_SharesSumTo100 ==
    outcome = "rendered" =>
        \A m \in MonthsOf(df_region) :
            MonthTotal(df_region, m) # 0 =>
                /\ Len(ValuesFor(monthly_pct, m)) = Len(AgeCols)
                /\ \A c \in DOMAIN AgeCols :
                    /\ SharesOf(m)[c] >= 0
                    /\ SharesOf(m)[c] <= 100 * Precision
                    /\ Abs(SharesOf(m)[c] * MonthTotal(df_region, m)
                           - 100 * Precision * MonthSum(df_region, m, AgeCols[c]))
                           <= Tolerance * MonthTotal(df_region, m)
                /\ Abs(SumSeq(SharesOf(m)) - 100 * Precision) <= Tolerance

\* a month whose shares are thirds: none of them is a whole percentage
C4_Witness ==
    /\ outcome = "rendered"
    /\ \E m \in MonthsOf(df_region) :
        /\ MonthTotal(df_region, m) = 3
        /\ \A c \in DOMAIN AgeCols : SharesOf(m)[c] % Precision # 0

ZeroMonths(frame) == {m \in MonthsOf(frame) : MonthTotal(frame, m) = 0}

\* C5 as claimed: a month whose three bucket sums are zero is left out of
\* monthly_pct or has the percentage 0 for every age group.
C5_ZeroMonthExcludedOrZero ==
    outcome = "rendered" =>
        \A m \in ZeroMonths(df_region) :
            \/ \A k \in DOMAIN monthly_pct : monthly_pct[k].key # m
            \/ \A k \in DOMAIN monthly_pct :
                   monthly_pct[k].key = m => monthly_pct[k].value = 0

\* the filtered frame without the rows of the months whose total is zero
WithoutZeroMonths(frame) ==
    SelectSeq(frame, LAMBDA r : r.month \notin ZeroMonths(frame))

\* C5, amended: a month whose three bucket sums are zero does not stop the
\* rerun (monthly_pct is computed and drawn); the month is in monthly_pct
\* with an undefined percentage (NaN) for every age group; and the shares of
\* the other months are what they are without the rows of that month.
C5_ZeroMonthIsNaN ==
    (outcome = "rendered" /\ ZeroMonths(df_region) # {}) =>
        /\ "monthly_pct" \in computed
        /\ \E k \in DOMAIN rendered : rendered[k] = "monthly_pct"
        /\ \A m \in ZeroMonths(df_region) :
               ValuesFor(monthly_pct, m) = [c \in DOMAIN AgeCols |-> NaN]
        /\ SelectSeq(monthly_pct, LAMBDA t : t.key \notin ZeroMonths(df_region))
               = MonthlyPct(WithoutZeroMonths(df_region), app)
        /\ \A m \in MonthsOf(df_region) \ ZeroMonths(df_region) :
               Abs(SumSeq(SharesOf(m)) - 100 * Precision) <= Tolerance

\* a month with rows and no enrolment next to a month with enrolments
C5_Witness ==
    /\ outcome = "rendered"
    /\ ZeroMonths(df_region) # {}
    /\ MonthsOf(df_region) \ ZeroMonths(df_region) # {}

\* the dates with at least one row in the filtered frame
DatesOf(frame) == {frame[i].date : i \in DOMAIN frame}

\* the registrations of the rows dated d or earlier
RECURSIVE TotalUpTo(_, _)
TotalUpTo(frame, d) ==
    IF Len(frame) = 0 THEN 0
    ELSE (IF frame[1].date <= d
          THEN frame[1].age_0_5 + frame[1].age_5_17 + frame[1].age_18_greater
          ELSE 0)
         + TotalUpTo(Tail(frame), d)

StripCommas(text) == SelectSeq(text, LAMBDA c : c # ",")

\* C7: format_indian(n) is the decimal digits of n, without a leading zero,
\* with a comma before the last three digits and before every two digits
\* to the left of them, and no comma elsewhere; 0, 999, 1000 and 12345678
\* give "0", "999", "1,000" and "1,23,45,678".
C7_IndianGrouping ==
    fmt_out # <<>> =>
        /\ \A i \in DOMAIN StripCommas(fmt_out) :
               StripCommas(fmt_out)[i] \in {DigitChars[d] : d \in DOMAIN DigitChars}
        /\ ParseInt(StripCommas(fmt_out)) = fmt_num
        /\ fmt_out[1] # ","
        /\ fmt_out[1] = "0" => fmt_out = <<"0">>
        /\ \A i \in DOMAIN fmt_out :
               LET fromRight == Len(fmt_out) - i + 1
               IN  fmt_out[i] = "," <=> (fromRight >= 4 /\ (fromRight - 4) % 3 = 0)
        /\ fmt_num = 0 => fmt_out = <<"0">>
        /\ fmt_num = 999 => fmt_out = <<"9", "9", "9">>
        /\ fmt_num = 1000 => fmt_out = <<"1", ",", "0", "0", "0">>
        /\ fmt_num = 12345678 =>
               fmt_out = <<"1", ",", "2", "3", ",", "4", "5", ",", "6", "7", "8">>

\* a number of seven digits with zero groups: two commas, a one-digit
\* leftmost group
C7_Witness ==
    /\ fmt_num = 1203045
    /\ fmt_out = <<"1", "2", ",", "0", "3", ",", "0", "4", "5">>

\* C8: no file set is read from disk twice in the life of the process, and
\* every load of a file set returns the frame that the first load of that
\* file set returned.
C8_LoadOncePerFileSet ==
    /\ \A i, j \in DOMAIN readLog : i # j => readLog[i] # readLog[j]
    /\ Requested =>
           /\ served.files \in DOMAIN firstServed
           /\ df = firstServed[served.files]

\* two files were read, and the rerun after that was served the first one
\* again, its frame unchanged although the file has been rewritten since
C8_Witness ==
    /\ Requested
    /\ Len(readLog) = 2
    /\ served.files = readLog[1]
    /\ df = firstServed[served.files]
    /\ \A f \in served.files : f \in DOMAIN disk /\ LoadFrame(disk[f]) # df

\* C9: a load returns the frame built from the file set the load resolves to
\* (what the glob matches now, or the selected path), never a frame that was
\* memoized for another file set.
C9_CacheFollowsFileSet ==
    Requested => served.src = served.files

\* C10 as claimed: every request with an empty filtered frame shows the
\* warning and computes and draws no view; a request with a non-empty one
\* shows no warning.
C10_EmptyAlwaysWarns ==
    Requested =>
        /\ Len(df_region) = 0 =>
               (warning /\ computed = {} /\ rendered = <<>>)
        /\ Len(df_region) > 0 => ~warning

\* the request asks for the charts: always in app_enrolment.py, with the
\* click on "Generate Plots" in app2.py
PlotsRequested == app = "app_enrolment" \/ plot_button

\* C10, amended: every request that asks for the charts and has an empty
\* filtered frame shows the warning and computes and draws no view, and with
\* a non-empty frame it shows no warning and computes its views; an app2.py
\* request without the click shows no warning and computes no view, whatever
\* the frame.
C10_EmptyWarnsWhenPlotting ==
    Requested =>
        /\ (PlotsRequested /\ Len(df_region) = 0) =>
               (warning /\ computed = {} /\ rendered = <<>>)
        /\ (PlotsRequested /\ Len(df_region) > 0) =>
               (~warning /\ computed # {} /\ rendered # <<>>)
        /\ ~PlotsRequested =>
               (~warning /\ computed = {} /\ rendered = <<>>)

\* a District request in app2.py, plots asked for, over a state whose rows
\* have no district
C10_Witness ==
    /\ app = "app2"
    /\ plot_button
    /\ outcome = "no_data"
    /\ level = "District"
    /\ state \in States
    /\ district = None
    /\ Len(df) > 0
    /\ warning

\* the views that read only the date and the age buckets of the filtered
\* frame: their own computation succeeds over every frame that has a row
DatedViews == {"monthly_total", "monthly_age", "daily_total", "monthly_pct"}

\* C11: in a rerun over a non-empty filtered frame, a failure in one view
\* does not keep the independent views from being computed and drawn: the
\* monthly totals, the monthly age groups, the cumulative series and the
\* percentage shares, whose own computation succeeds over every such frame,
\* are all computed and drawn by the end of the rerun, also when the third
\* view (the sub-territory chart or the pincode table) has failed.
C11_FailureIsLocal ==
    (outcome \in {"rendered", "error"} /\ Len(df_region) > 0) =>
        \A v \in DatedViews :
            /\ v \in computed
            /\ \E k \in DOMAIN rendered : rendered[k] = v

=============================================================================
